---- MODULE Spec2Model ----
(***************************************************************************)
(* Command line parsing and start-up sequence of swayimg (src/main.c):     *)
(* parse_cmdline() driving getopt_long() over argv, and main() choosing    *)
(* the file list, running the viewer and releasing its resources.          *)
(*                                                                         *)
(* Strings are sequences of one-character strings, so that option          *)
(* bundles, attached values and long-name prefixes are scanned character   *)
(* by character as getopt_long() scans them.  Indices into argv are the C  *)
(* indices (argv[0] is the program name).                                  *)
(***************************************************************************)
EXTENDS Integers, Sequences, FiniteSets, TLC

\* Largest number of command line arguments after the program name.
MaxArgs == 2

\* Largest number of parse_cmdline() calls in the repeated-scan harness.
MaxScans == 2

EXIT_SUCCESS == 0

EXIT_FAILURE == 1

\* A NULL pointer (optarg, cfg, files, a NULL-terminated table's last name).
NULL == <<"NULL">>

Min(a, b) == IF a < b THEN a ELSE b

--------------------------------------------------------------------------
(* The option table and the short option string composed from it.         *)

no_argument == 0

required_argument == 1

\* static const struct option options[], the terminating entry included.
options ==
    << [name |-> <<"f","u","l","l","s","c","r","e","e","n">>, has_arg |-> no_argument,           val |-> "f"],
       [name |-> <<"s","c","a","l","e">>,                     has_arg |-> required_argument,     val |-> "s"],
       [name |-> <<"b","a","c","k","g","r","o","u","n","d">>, has_arg |-> required_argument,     val |-> "b"],
       [name |-> <<"g","e","o","m","e","t","r","y">>,         has_arg |-> required_argument,     val |-> "g"],
       [name |-> <<"i","n","f","o">>,                         has_arg |-> no_argument,           val |-> "i"],
       [name |-> <<"c","l","a","s","s">>,                     has_arg |-> required_argument,     val |-> "c"],
       [name |-> <<"n","o","-","s","w","a","y">>,             has_arg |-> no_argument,           val |-> "n"],
       [name |-> <<"v","e","r","s","i","o","n">>,             has_arg |-> no_argument,           val |-> "v"],
       [name |-> <<"h","e","l","p">>,                         has_arg |-> no_argument,           val |-> "h"],
       [name |-> NULL,                                        has_arg |-> no_argument,           val |-> ""] >>

\* The loop that composes short_opts: every entry with a non-zero val gives
\* its character, followed by ':' when the option takes an argument.
RECURSIVE ComposeShortOpts(_)
ComposeShortOpts(i) ==
    IF i > Len(options) THEN <<>>
    ELSE LET opt == options[i]
         IN  (IF opt.val # ""
              THEN <<opt.val>> \o (IF opt.has_arg # no_argument THEN <<":">> ELSE <<>>)
              ELSE <<>>) \o ComposeShortOpts(i + 1)

short_opts == ComposeShortOpts(1)

--------------------------------------------------------------------------
(* getopt_long() as main.c calls it: short_opts begins with neither '+'   *)
(* nor '-', no option has a flag pointer or an optional argument, longind *)
(* is NULL.  d is the scanner's process-wide state: optind, the position  *)
(* nextchar inside the element being scanned (0 when there is none left), *)
(* and the range [first_nonopt, last_nonopt) of skipped non-options.      *)

\* What getopt_long returns at the end of the options (-1).
EOF == "EOF"

\* C's argv[i].
Arg(a, i) == a[i + 1]

\* C's argv[lo] .. argv[hi - 1].
Slice(a, lo, hi) == SubSeq(a, lo + 1, hi)

\* An element that does not start with '-', or is "-" alone, is no option.
IsNonOption(t) == Len(t) = 0 \/ t[1] # "-" \/ Len(t) = 1

\* Position of character c in string s, 0 when it does not occur.
RECURSIVE StrChr(_, _, _)
StrChr(s, c, i) ==
    IF i > Len(s) THEN 0 ELSE IF s[i] = c THEN i ELSE StrChr(s, c, i + 1)

\* Number of characters of s before the first '=' (all of s without one).
RECURSIVE NameLen(_, _)
NameLen(s, i) ==
    IF i > Len(s) \/ s[i] = "=" THEN i - 1 ELSE NameLen(s, i + 1)

IsPrefix(p, s) == Len(p) <= Len(s) /\ SubSeq(s, 1, Len(p)) = p

\* The options skipped over come first, the non-options after them.
Exchange(a, d) ==
    Slice(a, 0, d.first_nonopt) \o Slice(a, d.last_nonopt, d.optind)
        \o Slice(a, d.first_nonopt, d.last_nonopt) \o Slice(a, d.optind, Len(a))

RECURSIVE SkipNonOptions(_, _)
SkipNonOptions(a, i) ==
    IF i < Len(a) /\ IsNonOption(Arg(a, i)) THEN SkipNonOptions(a, i + 1) ELSE i

\* The first call sets the scanner up; POSIXLY_CORRECT in the environment
\* makes it stop at the first non-option instead of permuting argv.
Initialize(d, posixly) ==
    IF d.optind = 0 \/ ~d.initialized
    THEN LET o == IF d.optind = 0 THEN 1 ELSE d.optind
         IN  [d EXCEPT !.optind = o, !.first_nonopt = o, !.last_nonopt = o,
                       !.nextchar = 0, !.initialized = TRUE,
                       !.ordering = IF posixly THEN "REQUIRE_ORDER" ELSE "PERMUTE"]
    ELSE d

\* The element of a one-element set: The({e(x) : x \in {v}}) is e(v) with
\* v evaluated once.
The(S) == CHOOSE v \in S : TRUE

\* optind moved back by the caller: the range of skipped non-options follows.
Rationalize(d) ==
    [d EXCEPT !.last_nonopt = Min(@, d.optind), !.first_nonopt = Min(@, d.optind)]

\* PERMUTE: the options just processed are exchanged with the non-options
\* skipped before them, and the non-options that follow are skipped.
Permute(a, d) ==
    IF d.first_nonopt # d.last_nonopt /\ d.last_nonopt # d.optind
    THEN [argv |-> Exchange(a, d),
          d |-> [d EXCEPT !.first_nonopt = @ + (d.optind - d.last_nonopt),
                          !.last_nonopt = SkipNonOptions(Exchange(a, d), d.optind),
                          !.optind = SkipNonOptions(Exchange(a, d), d.optind)]]
    ELSE [argv |-> a,
          d |-> [d EXCEPT !.first_nonopt = IF d.last_nonopt # d.optind
                                           THEN d.optind ELSE @,
                          !.last_nonopt = SkipNonOptions(a, d.optind),
                          !.optind = SkipNonOptions(a, d.optind)]]

\* "--" ends the options: it is skipped like an option and everything after
\* it is a non-option.
DashDash(a, d) ==
    IF d.optind # Len(a) /\ Arg(a, d.optind) = <<"-", "-">>
    THEN IF d.first_nonopt # d.last_nonopt /\ d.last_nonopt # d.optind + 1
         THEN [argv |-> Exchange(a, [d EXCEPT !.optind = @ + 1]),
               d |-> [d EXCEPT !.first_nonopt = @ + (d.optind + 1 - d.last_nonopt),
                               !.last_nonopt = Len(a),
                               !.optind = Len(a)]]
         ELSE [argv |-> a,
               d |-> [d EXCEPT !.first_nonopt = IF @ = d.last_nonopt
                                                THEN d.optind + 1 ELSE @,
                               !.last_nonopt = Len(a),
                               !.optind = Len(a)]]
    ELSE [argv |-> a, d |-> d]

\* All elements done: optind goes back to the non-options skipped, and the
\* scan is over; it is over too at a non-option that was not skipped
\* (REQUIRE_ORDER).
EndOfScan(a, d) ==
    IF d.optind = Len(a)
    THEN [eof |-> TRUE, argv |-> a,
          d |-> IF d.first_nonopt # d.last_nonopt
                THEN [d EXCEPT !.optind = d.first_nonopt] ELSE d]
    ELSE [eof |-> IsNonOption(Arg(a, d.optind)), argv |-> a, d |-> d]

\* Advance to the next argv element.  eof: the scan is over (-1).
NextElement(a, d) ==
    The({EndOfScan(s.argv, s.d) :
            s \in {DashDash(p.argv, p.d) :
                     p \in {IF r.ordering = "PERMUTE" THEN Permute(a, r)
                                                      ELSE [argv |-> a, d |-> r] :
                              r \in {Rationalize(d)}}}})

\* "--name", "--name=value" or an unambiguous prefix of a name.
LongOption(a, d) ==
    LET argc == Len(a)
        tok == Arg(a, d.optind)
        body == SubSeq(tok, 3, Len(tok))
        namelen == NameLen(body, 1)
        nm == SubSeq(body, 1, namelen)
        named == {i \in 1..Len(options) : options[i].name # NULL}
        exact == {i \in named : options[i].name = nm}
        abbrev == {i \in named : IsPrefix(nm, options[i].name)}
        found == IF exact # {} THEN exact ELSE abbrev
        pfound == IF found = {} THEN 0
                  ELSE CHOOSE i \in found : \A j \in found : i <= j
        ambiguous == exact = {} /\ \E i \in abbrev :
                        /\ i # pfound
                        /\ \/ options[i].has_arg # options[pfound].has_arg
                           \/ options[i].val # options[pfound].val
        consumed == [d EXCEPT !.optind = @ + 1, !.nextchar = 0]
        err == [ret |-> "?", optarg |-> NULL, argv |-> a, d |-> consumed,
                tok |-> d.optind]
    IN  IF ambiguous \/ pfound = 0 THEN err
        ELSE IF namelen < Len(body)
        THEN IF options[pfound].has_arg # no_argument
             THEN [err EXCEPT !.ret = options[pfound].val,
                              !.optarg = SubSeq(body, namelen + 2, Len(body))]
             ELSE err
        ELSE IF options[pfound].has_arg = required_argument
        THEN IF consumed.optind < argc
             THEN [err EXCEPT !.ret = options[pfound].val,
                              !.optarg = Arg(a, consumed.optind),
                              !.d = [consumed EXCEPT !.optind = @ + 1]]
             ELSE err
        ELSE [err EXCEPT !.ret = options[pfound].val]

\* The next character of a "-abc" element; d.nextchar is its offset.
ShortOption(a, d) ==
    LET argc == Len(a)
        tok == Arg(a, d.optind)
        c == tok[d.nextchar + 1]
        next == d.nextchar + 1
        last == next = Len(tok)
        optind1 == IF last THEN d.optind + 1 ELSE d.optind
        temp == StrChr(short_opts, c, 1)
        d1 == [d EXCEPT !.optind = optind1, !.nextchar = IF last THEN 0 ELSE next]
        res == [ret |-> c, optarg |-> NULL, argv |-> a, d |-> d1, tok |-> d.optind]
    IN  IF temp = 0 \/ c = ":" \/ c = ";" THEN [res EXCEPT !.ret = "?"]
        ELSE IF temp < Len(short_opts) /\ short_opts[temp + 1] = ":"
        THEN IF ~last
             THEN [res EXCEPT !.optarg = SubSeq(tok, next + 1, Len(tok)),
                              !.d = [d1 EXCEPT !.optind = @ + 1, !.nextchar = 0]]
             ELSE IF optind1 = argc
             THEN [res EXCEPT !.ret = "?", !.d = [d1 EXCEPT !.nextchar = 0]]
             ELSE [res EXCEPT !.optarg = Arg(a, optind1),
                              !.d = [d1 EXCEPT !.optind = @ + 1, !.nextchar = 0]]
        ELSE res

\* One call of getopt_long(argc, argv, short_opts, options, NULL): the value
\* returned, optarg, argv as permuted so far, the scanner state after the
\* call, and tok, the index of the argv element the call looked at.
getopt_long(a, d, posixly) ==
    IF Len(a) < 1
    THEN [ret |-> EOF, optarg |-> NULL, argv |-> a, d |-> d, tok |-> 0]
    ELSE IF Initialize(d, posixly).nextchar = 0
    THEN The({IF n.eof
              THEN [ret |-> EOF, optarg |-> NULL, argv |-> n.argv, d |-> n.d,
                    tok |-> n.d.optind]
              ELSE IF Arg(n.argv, n.d.optind)[2] = "-"
              THEN LongOption(n.argv, n.d)
              ELSE ShortOption(n.argv, [n.d EXCEPT !.nextchar = 1]) :
                 n \in {NextElement(a, Initialize(d, posixly))}})
    ELSE ShortOption(a, Initialize(d, posixly))

--------------------------------------------------------------------------
(* The command lines explored.                                            *)

ProgName == <<"s","w","a","y","i","m","g">>

Tokens ==
    { <<"-","f">>, <<"-","n">>, <<"-","i">>, <<"-","h">>, <<"-","v">>,
      <<"-","s">>, <<"-","s","a">>, <<"-","b">>, <<"-","x">>, <<"-","x","f">>,
      <<"-","-","g","e","o","m","e","t","r","y">>,
      <<"-","-","c","l","a","s","s","=","a">>,
      <<"-","-","i","n","f","o","=","a">>,
      <<"-","-","h","e">>, <<"-","-","b","o","g","u","s">>,
      <<"-">>, <<"-","-">>, <<"a">> }

\* Every list of at most n tokens.
ArgLists(n) == UNION {[1..k -> Tokens] : k \in 0..n}

--------------------------------------------------------------------------
(* State.                                                                 *)

VARIABLES
    argv,       \* main's argv, as getopt_long has permuted it so far
    posixly,    \* whether POSIXLY_CORRECT is set in the environment
    optind,     \* <getopt.h> optind
    opterr,     \* <getopt.h> opterr
    optarg,     \* <getopt.h> optarg
    scanner,    \* the rest of getopt's process-wide state
    cfg,        \* *cfg; cfg.allocated is FALSE while the pointer is NULL
    files,      \* main's files: "NULL" or "LIST"
    index,      \* what parse_cmdline returned
    rc,         \* main's rc
    pc,         \* where main (or parse_cmdline) stands
    exitCode,   \* what main returned, -1 while it runs
    argv0,      \* argv as the process received it
    applied,    \* the option characters whose case ended in break, in order
    outcome,    \* how the scan ended: "none" while it has not
    diag,       \* the string line 117 printed, NULL when it printed none
    errTok,     \* index of the argv element getopt_long rejected
    trace,      \* the calls made to the collaborators, in order
    calls,      \* getopt_long calls made by the current parse_cmdline
    scans       \* parse_cmdline calls started

vars == <<argv, posixly, optind, opterr, optarg, scanner, cfg, files, index, rc,
          pc, exitCode, argv0, applied, outcome, diag, errTok, trace, calls,
          scans>>

env == <<posixly, argv0>>

getopt_vars == <<argv, optind, optarg, scanner>>

scan_log == <<applied, outcome, diag, errTok, calls>>

\* What init_config() returns when it succeeds: the documented defaults.
init_config ==
    [allocated |-> TRUE, fullscreen |-> FALSE, sway_wm |-> TRUE,
     show_info |-> FALSE, scale |-> NULL, background |-> NULL,
     geometry |-> NULL, appid |-> NULL]

\* A call of a collaborator: its name, the arguments the model follows
\* (the roots and the recursive flag of init_file_list, the list given to
\* run_viewer and free_file_list) and what it returned.
Call(name) ==
    [call |-> name, roots |-> <<>>, recursive |-> FALSE, files |-> "NULL",
     result |-> "void"]

Init ==
    /\ argv \in {<<ProgName>> \o l : l \in ArgLists(MaxArgs)}
    /\ argv0 = argv
    /\ posixly \in BOOLEAN
    /\ optind = 1
    /\ opterr = 1
    /\ optarg = NULL
    /\ scanner = [nextchar |-> 0, first_nonopt |-> 0, last_nonopt |-> 0,
                  initialized |-> FALSE, ordering |-> "REQUIRE_ORDER"]
    /\ cfg = [init_config EXCEPT !.allocated = FALSE]
    /\ files = "NULL"
    /\ index = 0
    /\ rc = -1
    /\ pc = "init_config"
    /\ exitCode = -1
    /\ applied = <<>>
    /\ outcome = "none"
    /\ diag = NULL
    /\ errTok = 0
    /\ trace = <<>>
    /\ calls = 0
    /\ scans = 0

--------------------------------------------------------------------------
(* parse_cmdline()                                                        *)

\* getopt's process-wide state as getopt_long() takes it.
ScannerState ==
    [optind |-> optind, nextchar |-> scanner.nextchar,
     first_nonopt |-> scanner.first_nonopt, last_nonopt |-> scanner.last_nonopt,
     initialized |-> scanner.initialized, ordering |-> scanner.ordering]

\* Mutant: fullscreen set, the window manager integration left on.
SetFullscreen_KeepsSway(c) == [c EXCEPT !.fullscreen = TRUE]

\* case 'f'
SetFullscreen(c) == [c EXCEPT !.fullscreen = TRUE, !.sway_wm = FALSE]

\* case 'n'
SetNoSway(c) == [c EXCEPT !.sway_wm = FALSE]

\* case 'i'
SetShowInfo(c) == [c EXCEPT !.show_info = TRUE]

\* The configuration after the switch for option opt; ok is what the
\* set_*_config() call returned (a rejected value aborts the scan).
SwitchConfig(c, opt, arg, ok) ==
    CASE opt = "f" -> SetFullscreen(c)
      [] opt = "s" -> IF ok THEN [c EXCEPT !.scale = arg] ELSE c
      [] opt = "b" -> IF ok THEN [c EXCEPT !.background = arg] ELSE c
      [] opt = "g" -> IF ok THEN [c EXCEPT !.geometry = arg] ELSE c
      [] opt = "i" -> SetShowInfo(c)
      [] opt = "c" -> IF ok THEN [c EXCEPT !.appid = arg] ELSE c
      [] opt = "n" -> SetNoSway(c)
      [] OTHER -> c

\* Mutant: the help case falls out of the switch instead of returning.
SwitchReturn_HelpContinues(opt, ok) ==
    CASE opt \in {"f", "i", "n", "h"} -> "break"
      [] opt \in {"s", "b", "g", "c"} -> IF ok THEN "break" ELSE "-1"
      [] opt = "v" -> "0"
      [] OTHER -> "-1"

\* How the switch leaves the loop body for option opt: "break", or the
\* value parse_cmdline returns at once.
SwitchReturn(opt, ok) ==
    CASE opt \in {"f", "i", "n"} -> "break"
      [] opt \in {"s", "b", "g", "c"} -> IF ok THEN "break" ELSE "-1"
      [] opt \in {"v", "h"} -> "0"
      [] OTHER -> "-1"

\* How the scan ended, for the log.
SwitchOutcome(opt, ok) ==
    CASE opt = "v" -> "version"
      [] opt = "h" -> "help"
      [] opt \in {"s", "b", "g", "c"} -> IF ok THEN "none" ELSE "rejected"
      [] opt \in {"f", "i", "n"} -> "none"
      [] OTHER -> "invalid"

\* Mutant: opterr is not touched.
ParseBegin_KeepsOpterr ==
    /\ pc = "parse_cmdline"
    /\ scans' = scans + 1
    /\ calls' = 0
    /\ outcome' = "none"
    /\ pc' = "getopt_long"
    /\ UNCHANGED <<env, getopt_vars, opterr, cfg, files, index, rc, exitCode,
                   applied, diag, errTok, trace>>

\* Lines 58-74: short_opts is composed and native messages are turned off.
ParseBegin ==
    /\ pc = "parse_cmdline"
    /\ opterr' = 0
    /\ scans' = scans + 1
    /\ calls' = 0
    /\ outcome' = "none"
    /\ pc' = "getopt_long"
    /\ UNCHANGED <<env, getopt_vars, cfg, files, index, rc, exitCode, applied,
                   diag, errTok, trace>>

\* Lines 77-120: one getopt_long() call and the switch on its result.
ParseOption ==
    /\ pc = "getopt_long"
    /\ \E r \in {getopt_long(argv, ScannerState, posixly)} :
           /\ argv' = r.argv
           /\ optind' = r.d.optind
           /\ optarg' = r.optarg
           /\ scanner' = [nextchar |-> r.d.nextchar,
                          first_nonopt |-> r.d.first_nonopt,
                          last_nonopt |-> r.d.last_nonopt,
                          initialized |-> r.d.initialized,
                          ordering |-> r.d.ordering]
           /\ calls' = calls + 1
           /\ IF r.ret = EOF
              THEN /\ pc' = "check_config"
                   /\ outcome' = "continue"
                   /\ UNCHANGED <<cfg, index, applied, diag, errTok>>
              ELSE \E ok \in BOOLEAN :
                   LET ret == SwitchReturn(r.ret, ok)
                       invalid == SwitchOutcome(r.ret, ok) = "invalid"
                   IN  /\ cfg' = SwitchConfig(cfg, r.ret, r.optarg, ok)
                       /\ outcome' = SwitchOutcome(r.ret, ok)
                       /\ applied' = IF ret = "break" THEN Append(applied, r.ret)
                                     ELSE applied
                       /\ diag' = IF invalid THEN Arg(r.argv, r.d.optind - 1)
                                  ELSE diag
                       /\ errTok' = IF invalid THEN r.tok ELSE errTok
                       /\ index' = CASE ret = "0" -> 0
                                     [] ret = "-1" -> -1
                                     [] OTHER -> index
                       /\ pc' = IF ret = "break" THEN "getopt_long" ELSE "returned"
    /\ UNCHANGED <<env, opterr, files, rc, exitCode, trace, scans>>

\* Mutant: optind is returned without the check_config call.
CheckConfig_NotCalled ==
    /\ pc = "check_config"
    /\ index' = optind
    /\ pc' = "returned"
    /\ UNCHANGED <<env, getopt_vars, opterr, cfg, files, rc, exitCode, scan_log,
                   trace, scans>>

\* Mutant: argc is returned instead of optind.
CheckConfig_ReturnsArgc ==
    /\ pc = "check_config"
    /\ trace' = Append(trace, Call("check_config"))
    /\ index' = Len(argv)
    /\ pc' = "returned"
    /\ UNCHANGED <<env, getopt_vars, opterr, cfg, files, rc, exitCode, scan_log,
                   scans>>

\* Lines 122-124: the options are exhausted.  check_config() is defined in
\* another file; the call is recorded and the fields followed here are kept.
CheckConfig ==
    /\ pc = "check_config"
    /\ trace' = Append(trace, Call("check_config"))
    /\ index' = optind
    /\ pc' = "returned"
    /\ UNCHANGED <<env, getopt_vars, opterr, cfg, files, rc, exitCode, scan_log,
                   scans>>

--------------------------------------------------------------------------
(* main()                                                                 *)

\* Lines 139-145.
InitConfig ==
    /\ pc = "init_config"
    /\ \E ok \in BOOLEAN :
          IF ok
          THEN /\ cfg' = init_config
               /\ pc' = "parse_cmdline"
               /\ rc' = rc
          ELSE /\ cfg' = cfg
               /\ rc' = EXIT_FAILURE
               /\ pc' = "done"
    /\ trace' = Append(trace, Call("init_config"))
    /\ UNCHANGED <<env, getopt_vars, opterr, files, index, exitCode, scan_log,
                   scans>>

\* Lines 146-155: what main does with parse_cmdline's result.
IndexReturnCode(i) ==
    IF i = 0 THEN EXIT_SUCCESS ELSE EXIT_FAILURE

CheckIndex ==
    /\ pc = "returned"
    /\ IF index = 0 \/ index < 0
       THEN /\ rc' = IndexReturnCode(index)
            /\ pc' = "done"
       ELSE /\ rc' = rc
            /\ pc' = "select"
    /\ UNCHANGED <<env, getopt_vars, opterr, cfg, files, index, exitCode,
                   scan_log, trace, scans>>

num_files == Len(argv) - index

\* Mutant: the number of arguments is not looked at.
IsPipe_AnyCount(n, a, i) == Arg(a, i) = <<"-">>

\* Line 165: the single argument "-".
IsPipe(n, a, i) == n = 1 /\ Arg(a, i) = <<"-">>

\* init_file_list(roots, n, recursive) returned list: "NULL" or "LIST".
ListCall(roots, recursive, list) ==
    [Call("init_file_list") EXCEPT !.roots = roots, !.recursive = recursive,
                                   !.result = list]

\* Mutant: the empty list does not stop main.
AfterList_AlwaysRuns(list) == "run_viewer"

\* Where main goes once init_file_list() has returned list.
AfterList(list) == IF list = "NULL" THEN "done" ELSE "run_viewer"

\* Lines 156-164: no input files, the current directory is used.
SelectCurrentDir ==
    /\ pc = "select"
    /\ num_files = 0
    /\ \E list \in {"NULL", "LIST"} :
          /\ files' = list
          /\ trace' = Append(trace, ListCall(<< <<".">> >>, TRUE, list))
          /\ rc' = IF list = "NULL" THEN EXIT_FAILURE ELSE rc
          /\ pc' = AfterList(list)
    /\ UNCHANGED <<env, getopt_vars, opterr, cfg, index, exitCode, scan_log,
                   scans>>

\* Lines 165-167: reading from a pipe.
SelectPipe ==
    /\ pc = "select"
    /\ num_files # 0
    /\ IsPipe(num_files, argv, index)
    /\ files' = "NULL"
    /\ pc' = "run_viewer"
    /\ UNCHANGED <<env, getopt_vars, opterr, cfg, index, rc, exitCode, scan_log,
                   trace, scans>>

\* Lines 168-176: the list is composed from the arguments.
SelectArgs ==
    /\ pc = "select"
    /\ num_files # 0
    /\ ~IsPipe(num_files, argv, index)
    /\ \E list \in {"NULL", "LIST"} :
          /\ files' = list
          /\ trace' = Append(trace, ListCall(Slice(argv, index, index + num_files),
                                             TRUE, list))
          /\ rc' = IF list = "NULL" THEN EXIT_FAILURE ELSE rc
          /\ pc' = AfterList(list)
    /\ UNCHANGED <<env, getopt_vars, opterr, cfg, index, exitCode, scan_log,
                   scans>>

\* Mutant: the viewer's result is dropped.
ViewerReturnCode_AlwaysSuccess(ok) == EXIT_SUCCESS

\* Line 178.
ViewerReturnCode(ok) == IF ok THEN EXIT_SUCCESS ELSE EXIT_FAILURE

RunViewer ==
    /\ pc = "run_viewer"
    /\ \E ok \in BOOLEAN :
          /\ rc' = ViewerReturnCode(ok)
          /\ trace' = Append(trace, [Call("run_viewer") EXCEPT
                                        !.files = files,
                                        !.result = IF ok THEN "true" ELSE "false"])
    /\ pc' = "done"
    /\ UNCHANGED <<env, getopt_vars, opterr, cfg, files, index, exitCode,
                   scan_log, scans>>

\* Mutant: the file list is not released.
Cleanup_ConfigOnly ==
    /\ pc = "done"
    /\ trace' = Append(trace, Call("free_config"))
    /\ pc' = "return"
    /\ UNCHANGED <<env, getopt_vars, opterr, cfg, files, index, rc, exitCode,
                   scan_log, scans>>

\* Lines 180-182: the label done.
Cleanup ==
    /\ pc = "done"
    /\ trace' = trace \o <<Call("free_config"),
                           [Call("free_file_list") EXCEPT !.files = files]>>
    /\ pc' = "return"
    /\ UNCHANGED <<env, getopt_vars, opterr, cfg, files, index, rc, exitCode,
                   scan_log, scans>>

\* Line 184.
Return ==
    /\ pc = "return"
    /\ exitCode' = rc
    /\ pc' = "exit"
    /\ UNCHANGED <<env, getopt_vars, opterr, cfg, files, index, rc, scan_log,
                   trace, scans>>

Next ==
    \/ InitConfig
    \/ ParseBegin
    \/ ParseOption
    \/ CheckConfig
    \/ CheckIndex
    \/ SelectCurrentDir
    \/ SelectPipe
    \/ SelectArgs
    \/ RunViewer
    \/ Cleanup
    \/ Return

Spec == Init /\ [][Next]_vars

--------------------------------------------------------------------------
(* parse_cmdline() called more than once in one process, on the same argv *)
(* array and configuration: what a second scan starts from.               *)

ScanAgain ==
    /\ pc = "returned"
    /\ scans < MaxScans
    /\ pc' = "parse_cmdline"
    /\ UNCHANGED <<env, getopt_vars, opterr, cfg, files, index, rc, exitCode,
                   scan_log, trace, scans>>

NextRescan ==
    \/ InitConfig
    \/ ParseBegin
    \/ ParseOption
    \/ CheckConfig
    \/ ScanAgain

SpecRescan == Init /\ [][NextRescan]_vars

--------------------------------------------------------------------------
(* What the properties below read off the state.                          *)

Count(name) == Cardinality({i \in DOMAIN trace : trace[i].call = name})

Called(name) == Count(name) > 0

InSeq(x, seq) == \E i \in DOMAIN seq : seq[i] = x

\* The arguments left for the file list: argv[index] .. argv[argc - 1].
Residual == Slice(argv, index, Len(argv))

EarlyExit == outcome \in {"help", "version"}

ScanFailed == outcome \in {"invalid", "rejected"}

EmptyList == \E i \in DOMAIN trace :
                trace[i].call = "init_file_list" /\ trace[i].result = "NULL"

ViewerReturned(b) == \E i \in DOMAIN trace :
                        trace[i].call = "run_viewer" /\ trace[i].result = b

Finished == pc \in {"return", "exit"}

--------------------------------------------------------------------------
(* The command line read without getopt: which options a list of          *)
(* arguments asks for and which arguments it leaves, element by element.  *)

ValueOptions ==
    {options[i].val : i \in {j \in 1..Len(options) :
                                options[j].has_arg = required_argument}}

\* The options of a "-abc" element from character k on; takesNext: the
\* last one takes the next element as its value.
RECURSIVE ShortLetters(_, _)
ShortLetters(t, k) ==
    IF k > Len(t) THEN [opts |-> <<>>, takesNext |-> FALSE]
    ELSE IF t[k] \in ValueOptions
    THEN [opts |-> <<t[k]>>, takesNext |-> k = Len(t)]
    ELSE [opts |-> <<t[k]>> \o ShortLetters(t, k + 1).opts,
          takesNext |-> ShortLetters(t, k + 1).takesNext]

\* The option of a "--name" or "--name=value" element.
LongLetters(t) ==
    LET body == SubSeq(t, 3, Len(t))
        nm == SubSeq(body, 1, NameLen(body, 1))
        match == {i \in 1..(Len(options) - 1) : IsPrefix(nm, options[i].name)}
    IN  IF match = {} THEN [opts |-> <<>>, takesNext |-> FALSE]
        ELSE LET o == options[CHOOSE i \in match : TRUE]
             IN  [opts |-> <<o.val>>,
                  takesNext |-> o.has_arg = required_argument /\ Len(nm) = Len(body)]

Letters(t) == IF t[2] = "-" THEN LongLetters(t) ELSE ShortLetters(t, 2)

\* stop: the reading stops at the first argument that is no option;
\* otherwise such arguments are passed over and options after them count.
RECURSIVE Reading(_, _, _)
Reading(a, i, stop) ==
    IF i >= Len(a) THEN [opts |-> <<>>, rest |-> <<>>]
    ELSE IF Arg(a, i) = <<"-", "-">>
    THEN [opts |-> <<>>, rest |-> Slice(a, i + 1, Len(a))]
    ELSE IF IsNonOption(Arg(a, i))
    THEN IF stop THEN [opts |-> <<>>, rest |-> Slice(a, i, Len(a))]
         ELSE [opts |-> Reading(a, i + 1, stop).opts,
               rest |-> <<Arg(a, i)>> \o Reading(a, i + 1, stop).rest]
    ELSE LET e == Letters(Arg(a, i))
             j == IF e.takesNext THEN i + 2 ELSE i + 1
         IN  [opts |-> e.opts \o Reading(a, j, stop).opts,
              rest |-> Reading(a, j, stop).rest]

--------------------------------------------------------------------------
(* Properties.                                                            *)

\* C1: once the scan has reached --help/-h or --version/-v, nothing more is
\* scanned or applied (argv, the cursor, the configuration stay as they
\* are), check_config, init_file_list and run_viewer are never called, and
\* main returns 0, whatever follows the option on the command line.
C1_HelpVersionShortCircuit ==
    /\ [](EarlyExit =>
            /\ index = 0
            /\ pc \in {"returned", "done", "return", "exit"}
            /\ ~Called("check_config")
            /\ ~Called("init_file_list")
            /\ ~Called("run_viewer")
            /\ (pc = "exit" => exitCode = EXIT_SUCCESS))
    /\ [][EarlyExit => UNCHANGED <<argv, optind, optarg, scanner, cfg, applied,
                                   calls>>]_vars

\* C1 witness: the run ended after -h/-v/--he with an unknown option behind it.
C1_HelpBeforeUnknownOption ==
    /\ pc = "exit"
    /\ EarlyExit
    /\ exitCode = EXIT_SUCCESS
    /\ Len(argv) = 3
    /\ optind = 2
    /\ Arg(argv, 2) \in {<<"-","x">>, <<"-","-","b","o","g","u","s">>}

\* C2: main returns 0 exactly when the scan ended with help/version or
\* run_viewer was called and returned true, and 1 otherwise: after an
\* invalid option, a rejected value, an empty file list, a failed
\* init_config or a failed viewer.
C2_ExitCode ==
    pc = "exit" =>
        /\ exitCode \in {EXIT_SUCCESS, EXIT_FAILURE}
        /\ exitCode = EXIT_SUCCESS <=> (EarlyExit \/ ViewerReturned("true"))
        /\ (ScanFailed \/ EmptyList \/ ViewerReturned("false") \/ ~cfg.allocated)
              => exitCode = EXIT_FAILURE

\* C2 witness: the options were fine, the viewer ran and failed.
C2_ViewerFailure ==
    /\ pc = "exit"
    /\ outcome = "continue"
    /\ ViewerReturned("false")
    /\ exitCode = EXIT_FAILURE

\* C3: once -f/--fullscreen has been applied, fullscreen is set and sway_wm
\* is clear, whatever was applied before or after it; fullscreen never holds
\* together with sway_wm; without -f, fullscreen stays clear (also after -n).
C3_FullscreenDisablesSway ==
    /\ InSeq("f", applied) => cfg.fullscreen /\ ~cfg.sway_wm
    /\ cfg.fullscreen => ~cfg.sway_wm
    /\ ~InSeq("f", applied) => ~cfg.fullscreen

\* C3 witness: --no-sway first, fullscreen after it.
C3_NoSwayThenFullscreen ==
    /\ applied = <<"n", "f">>
    /\ cfg.fullscreen
    /\ ~cfg.sway_wm

\* C4: after a scan that returned an index, the arguments left choose the
\* file list: none -> one init_file_list call on "." with recursion; the
\* single argument "-" -> no init_file_list call, files NULL, the viewer
\* runs on it; otherwise -> one init_file_list call on exactly the
\* arguments left, in order, with recursion.
C4_FileSetMode ==
    (outcome = "continue" /\ pc \in {"run_viewer", "done", "return", "exit"}) =>
        LET lists == SelectSeq(trace, LAMBDA e : e.call = "init_file_list")
            views == SelectSeq(trace, LAMBDA e : e.call = "run_viewer")
        IN  IF Residual = <<>>
            THEN /\ Len(lists) = 1
                 /\ lists[1].roots = << <<".">> >>
                 /\ lists[1].recursive
            ELSE IF Residual = << <<"-">> >>
            THEN /\ lists = <<>>
                 /\ files = "NULL"
                 /\ pc = "run_viewer" \/ Len(views) = 1
                 /\ \A i \in DOMAIN views : views[i].files = "NULL"
            ELSE /\ Len(lists) = 1
                 /\ lists[1].roots = Residual
                 /\ lists[1].recursive

\* C4 witness: "-" together with another argument gives a list of both.
C4_DashAmongArguments ==
    /\ pc = "run_viewer"
    /\ Len(Residual) = 2
    /\ InSeq(<<"-">>, Residual)
    /\ files = "LIST"

\* C5: when the scan fails on an unknown option or a missing argument, the
\* string printed after "Invalid argument: " is the argv element that holds
\* the rejected option.
C5_DiagnosticNamesToken ==
    outcome = "invalid" => diag = Arg(argv, errTok)

\* C6 as stated: the scan stops at the first argument that is no option;
\* the index returned is that argument's position in the command line as
\* given, the options before it are the ones applied and no argument from
\* there on is read as an option.
C6_StopsAtFirstPositional ==
    (outcome = "continue" /\ pc = "returned") =>
        /\ index = Len(argv0) - Len(Reading(argv0, 1, TRUE).rest)
        /\ applied = Reading(argv0, 1, TRUE).opts
        /\ Residual = Reading(argv0, 1, TRUE).rest

\* C6 amended: only with POSIXLY_CORRECT set does the scan stop at the first
\* argument that is no option.  Otherwise getopt_long passes over such
\* arguments and moves them behind the options: every option before "--"
\* is applied, in order, also those after a positional argument, and the
\* index returned is the position, in argv as permuted, of the first of the
\* arguments left, which are the positional arguments in their order.
C6_PermutingScan ==
    (outcome = "continue" /\ pc = "returned") =>
        /\ index = Len(argv) - Len(Reading(argv0, 1, posixly).rest)
        /\ applied = Reading(argv0, 1, posixly).opts
        /\ Residual = Reading(argv0, 1, posixly).rest
        /\ posixly => argv = argv0

\* C6 witness: an option behind a positional argument was applied and the
\* positional argument moved behind it.
C6_OptionAfterPositional ==
    /\ outcome = "continue"
    /\ pc = "returned"
    /\ ~posixly
    /\ Len(argv0) = 3
    /\ IsNonOption(Arg(argv0, 1))
    /\ applied = <<"f">>
    /\ argv # argv0
    /\ Residual = <<Arg(argv0, 1)>>

\* C7: on every path main reaches the label done: free_config and
\* free_file_list are each called exactly once, as the last two calls before
\* main returns, after any run_viewer call, and never before.
C7_SingleCleanup ==
    /\ ~Finished => ~Called("free_config") /\ ~Called("free_file_list")
    /\ Finished =>
          /\ Count("free_config") = 1
          /\ Count("free_file_list") = 1
          /\ Len(trace) >= 2
          /\ trace[Len(trace) - 1].call = "free_config"
          /\ trace[Len(trace)].call = "free_file_list"
          /\ trace[Len(trace)].files = files
    /\ pc # "exit" => ENABLED Next

\* C7 witness: main returned after the viewer ran.
C7_CleanupAfterViewer ==
    /\ pc = "exit"
    /\ Called("run_viewer")
    /\ trace[Len(trace)].call = "free_file_list"

\* C8: run_viewer is called at most once, and only after the scan returned
\* an index and the file list is there (a list, or NULL for the single
\* argument "-"); never after an invalid option, a rejected value, a failed
\* init_config or an empty list; nothing is scanned or listed twice.
C8_SingleDispatch ==
    /\ Count("run_viewer") <= 1
    /\ Count("init_file_list") <= 1
    /\ scans <= 1
    /\ (pc = "run_viewer" \/ Called("run_viewer")) =>
          /\ outcome = "continue"
          /\ index > 0
          /\ \/ files = "LIST"
             \/ ~Called("init_file_list") /\ Residual = << <<"-">> >>
    /\ (ScanFailed \/ EmptyList \/ ~cfg.allocated) =>
          ~Called("run_viewer") /\ pc # "run_viewer"

\* C8 witness: the viewer ran once on a list.
C8_ViewerRanOnList ==
    /\ Count("run_viewer") = 1
    /\ files = "LIST"
    /\ Count("init_file_list") = 1

\* C9: check_config is called exactly once when getopt_long has returned -1,
\* before any init_file_list or run_viewer call, and no option is applied
\* after it; it is not called when the scan ends with help, version, an
\* invalid option or a rejected value.
C9_CheckConfigOnce ==
    /\ []( /\ (outcome = "continue" /\ pc # "check_config") =>
                 /\ Count("check_config") = 1
                 /\ \A i \in DOMAIN trace :
                       trace[i].call \in {"init_file_list", "run_viewer"} =>
                          \E j \in 1..(i - 1) : trace[j].call = "check_config"
           /\ (EarlyExit \/ ScanFailed \/ pc = "check_config") =>
                 ~Called("check_config") )
    /\ [][Called("check_config") => UNCHANGED <<cfg, applied, argv, optind>>]_vars

\* C9 witness: options were applied, check_config ran, then the viewer.
C9_CheckedBeforeViewer ==
    /\ outcome = "continue"
    /\ applied # <<>>
    /\ Count("check_config") = 1
    /\ Called("run_viewer")

\* C10 as stated: every scan starts with native messages off and the cursor
\* at its initial position.
C10_CursorReset ==
    (pc = "getopt_long" /\ calls = 0) => opterr = 0 /\ optind = 1

\* C10 amended: every scan turns native messages off before its first
\* getopt_long call, but leaves the cursor alone: the first scan of the
\* process starts at 1, and a later scan starts where the one before it
\* stopped.
C10_OpterrOnly ==
    /\ [](pc = "getopt_long" => opterr = 0)
    /\ []((pc = "getopt_long" /\ calls = 0 /\ scans = 1) => optind = 1)
    /\ [][pc = "parse_cmdline" => UNCHANGED <<optind, scanner, argv>>]_vars

\* C10 witness: a second scan about to start behind the first argument.
C10_SecondScanStartsLater ==
    /\ pc = "getopt_long"
    /\ calls = 0
    /\ scans = 2
    /\ opterr = 0
    /\ optind > 1

====
